---- MODULE Spec2Model ----
(***************************************************************************)
(* terraform-provider-gcrane: the provider's temporary Docker config       *)
(* (Setup / Cleanup closures of GcraneData), the gcrane_copy resource and  *)
(* the gcrane_list data source.                                            *)
(*                                                                         *)
(* Paths are sequences of path components (<<"tmp", "3f9a", "config.json">>*)
(* is tmp/3f9a/config.json); the empty string / empty path is <<>>.        *)
(* types.String / types.Bool values are strings, with the sentinels Null   *)
(* and Unknown for the framework's null and unknown values.                *)
(***************************************************************************)
EXTENDS Integers, Sequences, FiniteSets, TLC

\* ------------------------------------------------------------------ bounds

\* Concurrent invocations (workers) the host runs against one provider.
NumWorkers == 2
\* Handler invocations the host makes in a run.
MaxOps == 3

Workers == 1..NumWorkers

\* ------------------------------------------------------- framework values

Null == "<null>"
Unknown == "<unknown>"

\* types.Bool.ValueBool(): false for null and unknown.
ValueBool(b) == b = "true"

\* types.String.ValueString(): "" for null and unknown.
ValueString(s) == IF s \in {Null, Unknown} THEN "" ELSE s

\* ------------------------------------------------------------ path helpers

\* filepath.Join(dir, name)
Join(dir, name) == Append(dir, name)

\* filepath.Dir(path)
Dir(path) == IF Len(path) = 0 THEN <<>> ELSE SubSeq(path, 1, Len(path) - 1)

\* os.TempDir()
OsTempDir == <<"tmp">>

\* hex.EncodeToString(randBytes) of the 16 random bytes Configure draws.
RandomDir == "3f9a61c2"

\* ---------------------------------------------------------- provider data

\* Provider configurations: docker_config ("" when absent) and
\* temporary_directory ("" when absent).
DockerConfigs == {"", "{auths}"}
TempDirs == {"", "work"}
\* Values of DOCKER_CONFIG in the process environment when Configure runs
\* (<<>> is unset / empty).
EnvValues == {<<>>, <<"home", ".docker">>}

\* GcraneProvider.Configure: the GcraneData it hands to resources and data
\* sources.  Counter and DockerIsConfigured start at their zero values.
Configure(docker_config, temporary_directory, environ) ==
    [DockerConfig |-> docker_config,
     DockerConfigFile |->
        IF docker_config # ""
        THEN Join(Join(IF temporary_directory # ""
                       THEN <<temporary_directory>>
                       ELSE OsTempDir, RandomDir), "config.json")
        ELSE <<>>,
     DockerIsConfigured |-> FALSE,
     OriginalEnv |-> environ,
     Counter |-> 0]

\* ------------------------------------------------------------------ state

VARIABLES
    providerData,   \* the GcraneData built by Configure (r.Client / d.Client point at it)
    env,            \* the process environment's DOCKER_CONFIG
    dirs,           \* directories on disk
    files,          \* files on disk: path -> contents
    pc,             \* pc[w]: where worker w is in its handler
    gcraneData,     \* gcraneData[w]: the local of the running Setup / Cleanup call
    req,            \* req[w]: the request of the running handler
    diags,          \* diags[w]: resp.Diagnostics (summaries)
    newState,       \* newState[w]: resp.State of the gcrane_copy resource
    dataState,      \* dataState[w]: resp.State of the gcrane_list data source
    calls,          \* calls[w]: calls made to go-containerregistry by the handler
    listed,         \* listed[w]: the *google.Tags that google.List returned
    tfstate,        \* tfstate[w]: the resource as Terraform has it stored
    ops,            \* handler invocations so far
    stats           \* materializations and teardowns performed so far

vars == <<providerData, env, dirs, files, pc, gcraneData, req, diags, newState,
          dataState, calls, listed, tfstate, ops, stats>>

\* CopyResourceModel with every attribute null: the resource is absent.
NullModel == [recursive |-> Null, source |-> Null, destination |-> Null, id |-> Null]

\* GcraneListDataSourceModel with every attribute null.
NullData == [repository |-> Null, id |-> Null, images |-> <<>>]

NoReq == [op |-> "none", recursive |-> Null, source |-> Null, destination |-> Null,
          id |-> Null, repository |-> Null]

\* The zero google.Tags.
NoTags == [Children |-> <<>>, Tags |-> <<>>, Manifests |-> <<>>]

FileExists(path) == path \in DOMAIN files

InitWith(configs, tempdirs, environs) ==
    /\ \E dc \in configs, td \in tempdirs, e \in environs :
          /\ providerData = Configure(dc, td, e)
          /\ env = e
    /\ dirs = {}
    /\ files = <<>>
    /\ pc = [w \in Workers |-> "idle"]
    /\ gcraneData = [w \in Workers |-> providerData]
    /\ req = [w \in Workers |-> NoReq]
    /\ diags = [w \in Workers |-> <<>>]
    /\ newState = [w \in Workers |-> NullModel]
    /\ dataState = [w \in Workers |-> NullData]
    /\ calls = [w \in Workers |-> <<>>]
    /\ listed = [w \in Workers |-> NoTags]
    /\ tfstate = [w \in Workers |-> NullModel]
    /\ ops = 0
    /\ stats = [materialize |-> 0, teardown |-> 0]

\* ------------------------------------------------ Setup (provider.go 111-146)

\* A guard that materializes whether or not a docker_config was configured.
MustMaterializeUnconditionally(d) == ~d.DockerIsConfigured

\* provider.go 117: the guard of the materialization body.
MustMaterialize(d) ==
    d.DockerConfig # "" /\ d.DockerConfigFile # <<>> /\ ~d.DockerIsConfigured

\* A handler that adds the diagnostic of a failed Setup and carries on.
SetupFailsAndProceeds(w) ==
    /\ diags' = [diags EXCEPT ![w] = Append(@, "Could not setup provider")]
    /\ pc' = [pc EXCEPT ![w] = "Body"]

\* Setup returns an error: the handler adds "Could not setup provider" and
\* returns without registering the deferred Cleanup.
SetupFails(w) ==
    /\ diags' = [diags EXCEPT ![w] = Append(@, "Could not setup provider")]
    /\ pc' = [pc EXCEPT ![w] = "Return"]

\* r.Client.Setup(ctx, *r.Client), 112-118: the argument is the GcraneData
\* value, so the closure's gcraneData is a copy of the provider's struct.
\* Counter.Add(1) and DockerIsConfigured.Store(true) act on that copy.
SetupEnter(w) ==
    /\ pc[w] = "Setup"
    /\ LET d == [providerData EXCEPT !.Counter = @ + 1] IN
       IF MustMaterialize(d)
       THEN /\ gcraneData' = [gcraneData EXCEPT
                                 ![w] = [d EXCEPT !.DockerIsConfigured = TRUE]]
            /\ pc' = [pc EXCEPT ![w] = "SetupMkdir"]
       ELSE /\ gcraneData' = [gcraneData EXCEPT ![w] = d]
            /\ pc' = [pc EXCEPT ![w] = "Body"]
    /\ UNCHANGED <<providerData, env, dirs, files, req, diags, newState,
                   dataState, calls, listed, tfstate, ops, stats>>

\* os.Mkdir(dockerConfigDir, 0700); an error other than "exists" fails Setup.
SetupMkdir(w, fault) ==
    /\ pc[w] = "SetupMkdir"
    /\ IF fault
       THEN /\ SetupFails(w)
            /\ UNCHANGED dirs
       ELSE /\ dirs' = dirs \cup {Dir(gcraneData[w].DockerConfigFile)}
            /\ pc' = [pc EXCEPT ![w] = "SetupOpen"]
            /\ UNCHANGED diags
    /\ UNCHANGED <<providerData, env, files, gcraneData, req, newState,
                   dataState, calls, listed, tfstate, ops, stats>>

\* os.OpenFile(DockerConfigFile, O_RDWR|O_CREATE|O_TRUNC, 0600): creates the
\* file, or truncates the one that is there.
SetupOpen(w, fault) ==
    /\ pc[w] = "SetupOpen"
    /\ IF fault \/ Dir(gcraneData[w].DockerConfigFile) \notin dirs
       THEN /\ SetupFails(w)
            /\ UNCHANGED files
       ELSE /\ files' = (gcraneData[w].DockerConfigFile :> "") @@ files
            /\ pc' = [pc EXCEPT ![w] = "SetupWrite"]
            /\ UNCHANGED diags
    /\ UNCHANGED <<providerData, env, dirs, gcraneData, req, newState,
                   dataState, calls, listed, tfstate, ops, stats>>

\* f.Write([]byte(DockerConfig))
SetupWrite(w, fault) ==
    /\ pc[w] = "SetupWrite"
    /\ IF fault
       THEN /\ SetupFails(w)
            /\ UNCHANGED files
       ELSE /\ files' = (gcraneData[w].DockerConfigFile :> gcraneData[w].DockerConfig)
                           @@ files
            /\ pc' = [pc EXCEPT ![w] = "SetupClose"]
            /\ UNCHANGED diags
    /\ UNCHANGED <<providerData, env, dirs, gcraneData, req, newState,
                   dataState, calls, listed, tfstate, ops, stats>>

\* f.Close(), then ConfigLock.Lock(); os.Setenv("DOCKER_CONFIG",
\* dockerConfigDir); ConfigLock.Unlock(); return nil.  The lock is the copy's
\* own mutex, which no other call holds.
SetupClose(w, fault) ==
    /\ pc[w] = "SetupClose"
    /\ IF fault
       THEN /\ SetupFails(w)
            /\ UNCHANGED <<env, stats>>
       ELSE /\ env' = Dir(gcraneData[w].DockerConfigFile)
            /\ stats' = [stats EXCEPT !.materialize = @ + 1]
            /\ pc' = [pc EXCEPT ![w] = "Body"]
            /\ UNCHANGED diags
    /\ UNCHANGED <<providerData, dirs, files, gcraneData, req, newState,
                   dataState, calls, listed, tfstate, ops>>

\* ---------------------------------------------- Cleanup (provider.go 148-178)

\* A Cleanup that keeps no count of the users: it removes the file on every call.
ShouldRemoveOnEveryCall(d) == d.DockerConfig # "" /\ d.DockerConfigFile # <<>>

\* provider.go 155-156: the temporary file is removed when the counter reads
\* zero and the config is marked as written.
ShouldRemove(d) ==
    /\ d.Counter = 0
    /\ d.DockerConfig # "" /\ d.DockerConfigFile # <<>> /\ d.DockerIsConfigured

\* provider.go 155, 169: DOCKER_CONFIG is set back when the counter reads zero
\* and the value saved by Configure is not empty.
ShouldRestore(d) == d.Counter = 0 /\ d.OriginalEnv # <<>>

\* r.Client.Cleanup(ctx, *r.Client): again a copy of the provider's struct;
\* Counter.Add(-1), Counter.Load() and DockerIsConfigured act on the copy.
\* os.Remove fails on a fault or when the file is not there, and Cleanup then
\* returns the error before it restores DOCKER_CONFIG; the deferred closure of
\* the handler adds "Could not clean up provider".
Cleanup(w, fault) ==
    /\ pc[w] = "Cleanup"
    /\ LET d == [providerData EXCEPT !.Counter = @ - 1] IN
       IF ShouldRemove(d)
       THEN /\ gcraneData' = [gcraneData EXCEPT
                                 ![w] = [d EXCEPT !.DockerIsConfigured = FALSE]]
            /\ IF fault \/ ~FileExists(d.DockerConfigFile)
               THEN /\ diags' = [diags EXCEPT
                                   ![w] = Append(@, "Could not clean up provider")]
                    /\ UNCHANGED <<files, env, stats>>
               ELSE /\ files' = [f \in DOMAIN files \ {d.DockerConfigFile} |-> files[f]]
                    /\ stats' = [stats EXCEPT !.teardown = @ + 1]
                    /\ env' = IF ShouldRestore(d) THEN d.OriginalEnv ELSE env
                    /\ UNCHANGED diags
       ELSE /\ gcraneData' = [gcraneData EXCEPT ![w] = d]
            /\ env' = IF ShouldRestore(d) THEN d.OriginalEnv ELSE env
            /\ UNCHANGED <<files, diags, stats>>
    /\ pc' = [pc EXCEPT ![w] = "Return"]
    /\ UNCHANGED <<providerData, dirs, req, newState, dataState, calls, listed,
                   tfstate, ops>>

\* ------------------------------------------- gcrane_copy resource (part_003)

\* A schema that leaves RequiresReplace() on destination too.
RequiresReplaceDestination == {"recursive", "source", "destination"}

\* Schema: the attributes whose plan modifiers include RequiresReplace().
RequiresReplace == {"recursive", "source"}

\* Schema: the attributes the configuration sets (id is Computed).
ConfigAttributes == {"recursive", "source", "destination"}

\* Schema, id: Computed with UseStateForUnknown(): unknown when the resource is
\* created, the prior state's value in every later plan.
PlannedId(prior) == IF prior = NullModel THEN Unknown ELSE prior.id

\* The plan the framework hands to Create / Update for configuration cfg.
PlanResource(prior, cfg) ==
    [recursive |-> cfg.recursive, source |-> cfg.source,
     destination |-> cfg.destination, id |-> PlannedId(prior)]

\* What Terraform does with the resource for configuration cfg: an attribute
\* with RequiresReplace whose planned value differs from the state forces
\* destroy-then-create, any other difference is an in-place Update.
PlanAction(prior, cfg) ==
    IF prior = NullModel THEN "create"
    ELSE IF \E a \in RequiresReplace : prior[a] # cfg[a] THEN "replace"
    ELSE IF \E a \in ConfigAttributes : prior[a] # cfg[a] THEN "update"
    ELSE "noop"

CreateRequest(plan) ==
    [op |-> "Create", recursive |-> plan.recursive, source |-> plan.source,
     destination |-> plan.destination, id |-> plan.id, repository |-> Null]

\* A handler is invoked: its request, and the state its response starts with.
Begin(w, request, state) ==
    /\ pc[w] = "idle"
    /\ ops < MaxOps
    /\ req' = [req EXCEPT ![w] = request]
    /\ diags' = [diags EXCEPT ![w] = <<>>]
    /\ newState' = [newState EXCEPT ![w] = state]
    /\ dataState' = [dataState EXCEPT ![w] = NullData]
    /\ calls' = [calls EXCEPT ![w] = <<>>]
    /\ listed' = [listed EXCEPT ![w] = NoTags]
    /\ ops' = ops + 1

\* Create, up to the call of Setup: req.Plan.Get(ctx, &data).
Create(w, cfg) ==
    /\ tfstate[w] = NullModel
    /\ Begin(w, CreateRequest(PlanResource(NullModel, cfg)), NullModel)
    /\ pc' = [pc EXCEPT ![w] = "Setup"]
    /\ UNCHANGED <<providerData, env, dirs, files, gcraneData, tfstate, stats>>

\* A change of an attribute with RequiresReplace: Terraform calls Delete, drops
\* the resource, and calls Create with the new configuration.
Replace(w, cfg) ==
    /\ PlanAction(tfstate[w], cfg) = "replace"
    /\ Begin(w, CreateRequest(PlanResource(NullModel, cfg)), NullModel)
    /\ tfstate' = [tfstate EXCEPT ![w] = NullModel]
    /\ pc' = [pc EXCEPT ![w] = "Setup"]
    /\ UNCHANGED <<providerData, env, dirs, files, gcraneData, stats>>

\* A Create that takes an unset recursive for true.
CopyRoutineUnsetIsTrue(recursive) ==
    IF recursive # "false" THEN "CopyRepository" ELSE "Copy"

\* Create 149-153: the routine of go-containerregistry that is called.
CopyRoutine(recursive) == IF ValueBool(recursive) THEN "CopyRepository" ELSE "Copy"

\* Create 147: data.Id = data.Destination; the model that State.Set saves.
CreatedModel(data) ==
    [recursive |-> data.recursive, source |-> data.source,
     destination |-> data.destination, id |-> data.destination]

\* A Create that returns from the failed copy without running Cleanup.
CreateCopyReturnsEarly(w, err) ==
    /\ pc[w] = "Body"
    /\ req[w].op = "Create"
    /\ calls' = [calls EXCEPT
                   ![w] = Append(@, [fn |-> CopyRoutine(req[w].recursive),
                                     source |-> ValueString(req[w].source),
                                     destination |-> ValueString(req[w].destination)])]
    /\ IF err
       THEN /\ diags' = [diags EXCEPT
                           ![w] = Append(@, "Could not perform gcrane copy")]
            /\ pc' = [pc EXCEPT ![w] = "Return"]
            /\ UNCHANGED newState
       ELSE /\ newState' = [newState EXCEPT ![w] = CreatedModel(req[w])]
            /\ pc' = [pc EXCEPT ![w] = "Cleanup"]
            /\ UNCHANGED diags
    /\ UNCHANGED <<providerData, env, dirs, files, gcraneData, req, dataState,
                   listed, tfstate, ops, stats>>

\* A Create that tries the copy a second time when the first call fails.
CreateCopyRetriesOnce(w, err) ==
    /\ pc[w] = "Body"
    /\ req[w].op = "Create"
    /\ LET call == [fn |-> CopyRoutine(req[w].recursive),
                    source |-> ValueString(req[w].source),
                    destination |-> ValueString(req[w].destination)]
       IN calls' = [calls EXCEPT
                      ![w] = IF err THEN @ \o <<call, call>> ELSE Append(@, call)]
    /\ IF err
       THEN /\ diags' = [diags EXCEPT
                           ![w] = Append(@, "Could not perform gcrane copy")]
            /\ UNCHANGED newState
       ELSE /\ newState' = [newState EXCEPT ![w] = CreatedModel(req[w])]
            /\ UNCHANGED diags
    /\ pc' = [pc EXCEPT ![w] = "Cleanup"]
    /\ UNCHANGED <<providerData, env, dirs, files, gcraneData, req, dataState,
                   listed, tfstate, ops, stats>>

\* Create 147-169, after Setup returned nil: one call of the copy routine;
\* on an error a diagnostic and return, else State.Set.  The deferred Cleanup
\* runs next in both cases.
CreateCopy(w, err) ==
    /\ pc[w] = "Body"
    /\ req[w].op = "Create"
    /\ calls' = [calls EXCEPT ![w] =
                    Append(@, [fn |-> CopyRoutine(req[w].recursive),
                               source |-> ValueString(req[w].source),
                               destination |-> ValueString(req[w].destination)])]
    /\ IF err
       THEN /\ diags' = [diags EXCEPT
                           ![w] = Append(@, "Could not perform gcrane copy")]
            /\ UNCHANGED newState
       ELSE /\ newState' = [newState EXCEPT ![w] = CreatedModel(req[w])]
            /\ UNCHANGED diags
    /\ pc' = [pc EXCEPT ![w] = "Cleanup"]
    /\ UNCHANGED <<providerData, env, dirs, files, gcraneData, req, dataState,
                   listed, tfstate, ops, stats>>

\* Read: req.State.Get(ctx, &data); resp.State.Set(ctx, &data).
Read(w) ==
    /\ tfstate[w] # NullModel
    /\ Begin(w, [CreateRequest(tfstate[w]) EXCEPT !.op = "Read"], tfstate[w])
    /\ pc' = [pc EXCEPT ![w] = "Return"]
    /\ UNCHANGED <<providerData, env, dirs, files, gcraneData, tfstate, stats>>

\* Update: req.Plan.Get(ctx, &data); resp.State.Set(ctx, &data).
Update(w, cfg) ==
    /\ PlanAction(tfstate[w], cfg) = "update"
    /\ LET plan == PlanResource(tfstate[w], cfg) IN
       Begin(w, [CreateRequest(plan) EXCEPT !.op = "Update"], plan)
    /\ pc' = [pc EXCEPT ![w] = "Return"]
    /\ UNCHANGED <<providerData, env, dirs, files, gcraneData, tfstate, stats>>

\* Delete: req.State.Get(ctx, &data); no error, so the framework empties the
\* response's state.
Delete(w) ==
    /\ tfstate[w] # NullModel
    /\ Begin(w, [CreateRequest(tfstate[w]) EXCEPT !.op = "Delete"], NullModel)
    /\ pc' = [pc EXCEPT ![w] = "Return"]
    /\ UNCHANGED <<providerData, env, dirs, files, gcraneData, tfstate, stats>>

\* ------------------------------- gcrane_list data source (data_gcrane_list.go)

\* time.Time.UnixMilli() of a time held as seconds and nanoseconds.
UnixMilli(t) == t.sec * 1000 + t.nsec \div 1000000

\* types.SetValueFrom(ctx, types.StringType, slice): the set of the elements.
SetValueFrom(slice) == {slice[i] : i \in DOMAIN slice}

\* Read 236-251: the manifest objects, by digest.
ManifestsMap(manifests) ==
    [k \in DOMAIN manifests |->
        [image_size_bytes |-> manifests[k].Size,
         media_type |-> manifests[k].MediaType,
         time_created_ms |-> UnixMilli(manifests[k].Created),
         time_uploaded_ms |-> UnixMilli(manifests[k].Uploaded),
         tags |-> SetValueFrom(manifests[k].Tags)]]

\* A Read that fills children from the tags and tags from the children.
ImagesObjectSwapped(tags) ==
    [manifests |-> ManifestsMap(tags.Manifests),
     tags |-> SetValueFrom(tags.Children),
     children |-> SetValueFrom(tags.Tags)]

\* Read 218-259: the images object built from the *google.Tags of List.
ImagesObject(tags) ==
    [manifests |-> ManifestsMap(tags.Manifests),
     tags |-> SetValueFrom(tags.Tags),
     children |-> SetValueFrom(tags.Children)]

\* Read 193, 265: data.Id = data.Repository; data.Images = append(data.Images, o).
ListedData(config, tags) ==
    [repository |-> config.repository, id |-> config.repository,
     images |-> Append(config.images, ImagesObject(tags))]

\* name.NewRepository rejects the empty name, and any name the environment
\* (nameErr) finds malformed.
NewRepositoryFails(repository, nameErr) == repository = "" \/ nameErr

\* Read, up to the call of Setup: req.Config.Get(ctx, &data); images is
\* Computed, so the configuration holds none.
ListRead(w, repository) ==
    /\ Begin(w, [NoReq EXCEPT !.op = "ListRead", !.repository = repository],
             NullModel)
    /\ pc' = [pc EXCEPT ![w] = "Setup"]
    /\ UNCHANGED <<providerData, env, dirs, files, gcraneData, tfstate, stats>>

\* A Read that goes on to google.List and to State.Set after the repository
\* name failed to resolve.
ListReadBodyListsAnyway(w, nameErr, listErr, result) ==
    /\ pc[w] = "Body"
    /\ req[w].op = "ListRead"
    /\ LET repository == ValueString(req[w].repository)
           config == [repository |-> req[w].repository, images |-> <<>>]
           newRepository == [fn |-> "NewRepository", source |-> repository,
                             destination |-> ""]
           list == [fn |-> "List", source |-> repository, destination |-> ""]
       IN
       /\ calls' = [calls EXCEPT ![w] = @ \o <<newRepository, list>>]
       /\ diags' = [diags EXCEPT
                      ![w] = IF NewRepositoryFails(repository, nameErr)
                             THEN Append(@, "Failed to read repository")
                             ELSE IF listErr
                             THEN Append(@, "Failed to list repository")
                             ELSE @]
       /\ IF listErr
          THEN UNCHANGED <<dataState, listed>>
          ELSE /\ listed' = [listed EXCEPT ![w] = result]
               /\ dataState' = [dataState EXCEPT
                                  ![w] = ListedData(config, result)]
    /\ pc' = [pc EXCEPT ![w] = "Cleanup"]
    /\ UNCHANGED <<providerData, env, dirs, files, gcraneData, req, newState,
                   tfstate, ops, stats>>

\* Read 193-282, after Setup returned nil: name.NewRepository, google.List,
\* the conversion and State.Set; an error of either call is a diagnostic and
\* return.  The deferred Cleanup runs next in every case.
ListReadBody(w, nameErr, listErr, result) ==
    /\ pc[w] = "Body"
    /\ req[w].op = "ListRead"
    /\ LET repository == ValueString(req[w].repository)
           config == [repository |-> req[w].repository, images |-> <<>>]
           newRepository == [fn |-> "NewRepository", source |-> repository,
                             destination |-> ""]
           list == [fn |-> "List", source |-> repository, destination |-> ""]
       IN
       IF NewRepositoryFails(repository, nameErr)
       THEN /\ calls' = [calls EXCEPT ![w] = Append(@, newRepository)]
            /\ diags' = [diags EXCEPT ![w] = Append(@, "Failed to read repository")]
            /\ UNCHANGED <<dataState, listed>>
       ELSE IF listErr
       THEN /\ calls' = [calls EXCEPT ![w] = @ \o <<newRepository, list>>]
            /\ diags' = [diags EXCEPT ![w] = Append(@, "Failed to list repository")]
            /\ UNCHANGED <<dataState, listed>>
       ELSE /\ calls' = [calls EXCEPT ![w] = @ \o <<newRepository, list>>]
            /\ listed' = [listed EXCEPT ![w] = result]
            /\ dataState' = [dataState EXCEPT ![w] = ListedData(config, result)]
            /\ UNCHANGED diags
    /\ pc' = [pc EXCEPT ![w] = "Cleanup"]
    /\ UNCHANGED <<providerData, env, dirs, files, gcraneData, req, newState,
                   tfstate, ops, stats>>

\* ------------------------------------------------------------------ return

\* The handler returns its response: Terraform stores the state a resource
\* response carries (none when Create never reached State.Set); the state of
\* a data source is not kept.
Return(w) ==
    /\ pc[w] = "Return"
    /\ tfstate' = [tfstate EXCEPT
                      ![w] = IF req[w].op = "ListRead" THEN @ ELSE newState[w]]
    /\ pc' = [pc EXCEPT ![w] = "idle"]
    /\ req' = [req EXCEPT ![w] = NoReq]
    /\ diags' = [diags EXCEPT ![w] = <<>>]
    /\ newState' = [newState EXCEPT ![w] = NullModel]
    /\ dataState' = [dataState EXCEPT ![w] = NullData]
    /\ calls' = [calls EXCEPT ![w] = <<>>]
    /\ listed' = [listed EXCEPT ![w] = NoTags]
    /\ UNCHANGED <<providerData, env, dirs, files, gcraneData, ops, stats>>

\* ------------------------------------------------------------------ inputs

\* Configurations of a gcrane_copy resource (recursive is Optional).
Recursives == {Null, "false", "true"}
Sources == {"google/cloud-sdk:slim", "google/pause:latest"}
Destinations == {"eu.pkg.dev/p/r/image:a", "eu.pkg.dev/p/r/image:b"}
CopyConfigs ==
    [recursive : Recursives, source : Sources, destination : Destinations]

\* Configurations of a gcrane_list data source (repository is Optional).
Repositories == {Null, "google/pause"}

\* Results of google.List.
Manifest(size, created, uploaded, tags) ==
    [Size |-> size,
     MediaType |-> "application/vnd.docker.distribution.manifest.v2+json",
     Created |-> created, Uploaded |-> uploaded, Tags |-> tags]

TagsLatestOnly == [Children |-> <<>>, Tags |-> <<"latest">>, Manifests |-> <<>>]

TagsOneManifest ==
    [Children |-> <<"sub">>, Tags |-> <<"latest", "v1">>,
     Manifests |-> ("sha256:aa" :> Manifest(1024, [sec |-> 1, nsec |-> 500000000],
                                            [sec |-> 2, nsec |-> 999999], <<"latest", "v1">>))]

TagsTwoManifests ==
    [Children |-> <<"sub", "other">>, Tags |-> <<>>,
     Manifests |-> ("sha256:aa" :> Manifest(1024, [sec |-> 1, nsec |-> 0],
                                            [sec |-> 1, nsec |-> 1000000], <<"v1">>))
                   @@ ("sha256:bb" :> Manifest(0, [sec |-> 0, nsec |-> 0],
                                               [sec |-> 0, nsec |-> 0], <<>>))]

ListResults == {TagsLatestOnly, TagsOneManifest, TagsTwoManifests}

\* The inputs of the concurrent specification: one configuration of each kind.
ScopeCopyConfigs ==
    {[recursive |-> "false", source |-> "google/cloud-sdk:slim",
      destination |-> "eu.pkg.dev/p/r/image:a"]}
ScopeRepositories == {"google/pause"}
ScopeListResults == {TagsLatestOnly}

\* -------------------------------------------------------------- behaviours

\* The steps of Setup and Cleanup, and the return of the handler.
ScopeStep(w) ==
    \/ SetupEnter(w)
    \/ \E fault \in BOOLEAN : SetupMkdir(w, fault)
    \/ \E fault \in BOOLEAN : SetupOpen(w, fault)
    \/ \E fault \in BOOLEAN : SetupWrite(w, fault)
    \/ \E fault \in BOOLEAN : SetupClose(w, fault)
    \/ \E fault \in BOOLEAN : Cleanup(w, fault)
    \/ Return(w)

\* Concurrent Create and list Read handlers on one provider.
Init == InitWith(DockerConfigs, {""}, EnvValues)

Next ==
    \E w \in Workers :
        \/ ScopeStep(w)
        \/ \E cfg \in ScopeCopyConfigs : Create(w, cfg)
        \/ \E err \in BOOLEAN : CreateCopy(w, err)
        \/ \E repository \in ScopeRepositories : ListRead(w, repository)
        \/ \E nameErr, listErr \in BOOLEAN, result \in ScopeListResults :
              ListReadBody(w, nameErr, listErr, result)

Spec == Init /\ [][Next]_vars

\* One worker: the life of one gcrane_copy resource and the reads of one
\* gcrane_list data source, over all configurations and library results.
InitSeq == InitWith(DockerConfigs, TempDirs, EnvValues)

NextSeq ==
    \/ ScopeStep(1)
    \/ \E cfg \in CopyConfigs : Create(1, cfg)
    \/ \E cfg \in CopyConfigs : Replace(1, cfg)
    \/ \E cfg \in CopyConfigs : Update(1, cfg)
    \/ Read(1)
    \/ Delete(1)
    \/ \E err \in BOOLEAN : CreateCopy(1, err)
    \/ \E repository \in Repositories : ListRead(1, repository)
    \/ \E nameErr, listErr \in BOOLEAN, result \in ListResults :
          ListReadBody(1, nameErr, listErr, result)

SpecSeq == InitSeq /\ [][NextSeq]_vars

\* ------------------------------------------------------------------ claims

\* The handler of w got an error from Setup.
SetupFailed(w) == \E i \in DOMAIN diags[w] : diags[w][i] = "Could not setup provider"

\* The handler of w got an error from Cleanup.
CleanupFailed(w) ==
    \E i \in DOMAIN diags[w] : diags[w][i] = "Could not clean up provider"

\* Worker w is between the return of its Setup and the start of its Cleanup.
InFlight(w) == pc[w] \in {"Body", "Cleanup"}

\* The handler of w has run Setup and the matching Cleanup and not yet returned.
PairDone(w) ==
    /\ pc[w] = "Return"
    /\ req[w].op \in {"Create", "ListRead"}
    /\ ~SetupFailed(w)

\* C1: with a non-empty docker_config, after one Setup and the matching
\* Cleanup, nothing else having run, DOCKER_CONFIG has the value it had before
\* the Setup and the temporary config.json is not on disk.
C1_SetupCleanupRestores ==
    \A w \in Workers :
        (providerData.DockerConfig # "" /\ ops = 1 /\ PairDone(w) /\ ~CleanupFailed(w))
            => /\ env = providerData.OriginalEnv
               /\ ~FileExists(providerData.DockerConfigFile)

\* C2: with a non-empty docker_config, the temporary file is on disk in every
\* state in which some operation is between its Setup and its Cleanup: no
\* Cleanup removes it under an operation that is still running.
C2_FileExistsWhileInFlight ==
    (providerData.DockerConfig # "" /\ \E w \in Workers : InFlight(w))
        => FileExists(providerData.DockerConfigFile)

\* C2, the case: one operation has finished its Cleanup while another is
\* between its Setup and its Cleanup.
C2_Witness ==
    /\ providerData.DockerConfig # ""
    /\ \E v, w \in Workers : v # w /\ PairDone(v) /\ InFlight(w)

\* C3: exactly one materialization and one teardown, whatever the number of
\* overlapping Setup/Cleanup pairs: while every operation started so far is
\* between its Setup and its Cleanup the file has been materialized once and
\* not torn down, and after a single pair it has been torn down once.
C3_OneMaterializationOneTeardown ==
    /\ (/\ providerData.DockerConfig # ""
        /\ ops >= 1
        /\ Cardinality({w \in Workers : InFlight(w)}) = ops)
           => (stats.materialize = 1 /\ stats.teardown = 0)
    /\ \A w \in Workers :
          (providerData.DockerConfig # "" /\ ops = 1 /\ PairDone(w) /\ ~CleanupFailed(w))
              => (stats.materialize = 1 /\ stats.teardown = 1)

C5_IdEqualsDestination ==
    \A w \in Workers : tfstate[w] # NullModel => tfstate[w].id = tfstate[w].destination

\* C6: for a resource that exists, a configuration that differs in destination
\* only is applied as an in-place Update, one that differs in source or in
\* recursive as a replacement; Update is never called with another source or
\* recursive than the stored ones.
C6_DestinationUpdatesInPlace ==
    \A w \in Workers :
        /\ tfstate[w] # NullModel =>
              \A cfg \in CopyConfigs :
                 /\ (/\ cfg.source = tfstate[w].source
                     /\ cfg.recursive = tfstate[w].recursive
                     /\ cfg.destination # tfstate[w].destination)
                        => PlanAction(tfstate[w], cfg) = "update"
                 /\ (cfg.source # tfstate[w].source \/ cfg.recursive # tfstate[w].recursive)
                        => PlanAction(tfstate[w], cfg) = "replace"
        /\ req[w].op = "Update" =>
              /\ req[w].source = tfstate[w].source
              /\ req[w].recursive = tfstate[w].recursive

\* C6, the case: an Update is applying a new destination to the stored resource.
C6_Witness ==
    \E w \in Workers :
        /\ pc[w] = "Return" /\ req[w].op = "Update"
        /\ tfstate[w] # NullModel
        /\ req[w].destination # tfstate[w].destination

\* C7: Create calls CopyRepository when recursive is true and Copy when it is
\* false or unset, once and never both, with the planned source and
\* destination.
C7_RecursiveSelectsRoutine ==
    \A w \in Workers :
        (req[w].op = "Create" /\ pc[w] \in {"Cleanup", "Return"} /\ ~SetupFailed(w))
            => /\ Len(calls[w]) = 1
               /\ calls[w][1].fn = "CopyRepository" <=> req[w].recursive = "true"
               /\ calls[w][1].fn = "Copy" <=> req[w].recursive \in {"false", Null}
               /\ calls[w][1].source = req[w].source
               /\ calls[w][1].destination = req[w].destination

\* C7, the case: a Create with recursive unset has called Copy.
C7_Witness ==
    \E w \in Workers :
        /\ req[w].op = "Create" /\ pc[w] = "Cleanup"
        /\ req[w].recursive = Null
        /\ calls[w] = <<[fn |-> "Copy", source |-> req[w].source,
                         destination |-> req[w].destination]>>

\* A list Read of w has written its state.
ListSucceeded(w) ==
    /\ req[w].op = "ListRead" /\ pc[w] \in {"Cleanup", "Return"}
    /\ ~SetupFailed(w)
    /\ calls[w] # <<>> /\ calls[w][Len(calls[w])].fn = "List"
    /\ Len(diags[w]) = 0

C10_EnvRestoredAfterTeardown ==
    \A w \in Workers :
        (PairDone(w) /\ ~CleanupFailed(w) /\ \A v \in Workers \ {w} : pc[v] = "idle")
            => env = providerData.OriginalEnv

\* The copy call of w's Create returned an error.
CopyFailed(w) ==
    \E i \in DOMAIN diags[w] : diags[w][i] = "Could not perform gcrane copy"

\* C11: Create calls the copy routine at most once; when that call fails it
\* has added an error diagnostic, written no resource state and made no
\* other call.
C11_CopyFailureIsTerminal ==
    \A w \in Workers :
        req[w].op = "Create" =>
            /\ Len(calls[w]) <= 1
            /\ CopyFailed(w) =>
                  /\ Len(calls[w]) = 1
                  /\ newState[w] = NullModel
                  /\ pc[w] \in {"Cleanup", "Return"}

\* C11, the case: a Create whose copy call failed is about to return.
C11_Witness ==
    \E w \in Workers :
        /\ req[w].op = "Create" /\ pc[w] = "Return"
        /\ CopyFailed(w) /\ Len(calls[w]) = 1 /\ newState[w] = NullModel

\* C12: the copy routine is invoked exactly when the resource is created or
\* its destination changes in an Update; Read and Delete never invoke it.
\* Stated on the handler that is about to return, whose prior state is still
\* in tfstate.
C12_CopyOnCreateOrDestinationChange ==
    \A w \in Workers :
        (pc[w] = "Return" /\ ~SetupFailed(w)) =>
            /\ req[w].op = "Create" => Len(calls[w]) = 1
            /\ req[w].op = "Update" =>
                  (calls[w] # <<>> <=>
                      req[w].destination # tfstate[w].destination)
            /\ req[w].op \in {"Read", "Delete"} => calls[w] = <<>>

\* The call of name.NewRepository of w's Read returned an error.
ResolutionFailed(w) ==
    \E i \in DOMAIN diags[w] : diags[w][i] = "Failed to read repository"

\* The call of google.List of w's Read returned an error.
ListFailed(w) ==
    \E i \in DOMAIN diags[w] : diags[w][i] = "Failed to list repository"

\* The number of calls of fn among the calls w's handler made.
CallCount(w, fn) ==
    Cardinality({i \in DOMAIN calls[w] : calls[w][i].fn = fn})

\* C13: in the list Read an error of name resolution or of listing is
\* terminal: one error diagnostic, no data-source state, no second attempt
\* of either call, and no call of List when the resolution failed.
C13_ListErrorIsTerminal ==
    \A w \in Workers :
        req[w].op = "ListRead" =>
            /\ CallCount(w, "NewRepository") <= 1
            /\ CallCount(w, "List") <= 1
            /\ ResolutionFailed(w) =>
                  /\ CallCount(w, "NewRepository") = 1
                  /\ CallCount(w, "List") = 0
                  /\ dataState[w] = NullData
                  /\ Len(diags[w]) = 1
            /\ ListFailed(w) =>
                  /\ CallCount(w, "NewRepository") = 1
                  /\ CallCount(w, "List") = 1
                  /\ dataState[w] = NullData
                  /\ Len(diags[w]) = 1

\* C13, the case: a Read whose name resolution failed is about to return.
C13_Witness ==
    \E w \in Workers :
        /\ req[w].op = "ListRead" /\ pc[w] = "Return"
        /\ ResolutionFailed(w) /\ CallCount(w, "List") = 0
        /\ dataState[w] = NullData

\* C14: the active-user counter that Setup and Cleanup observe is never
\* negative.
C14_CounterNeverNegative ==
    /\ providerData.Counter >= 0
    /\ \A w \in Workers : gcraneData[w].Counter >= 0

\* Worker w is inside the materialization body of Setup (provider.go 118-143).
Materializing(w) ==
    pc[w] \in {"SetupMkdir", "SetupOpen", "SetupWrite", "SetupClose"}

\* No worker is inside a materialization; a teardown is one step of Cleanup.
Quiescent == \A w \in Workers : pc[w] # "Setup" /\ ~Materializing(w)

\* The operations between a successful Setup and their Cleanup.
ActiveUsers == {w \in Workers : InFlight(w)}

\* C15: the counter of the provider's scope is the number of operations
\* between a successful Setup and their Cleanup, and the counter a Cleanup
\* tested against zero is the number of operations still in flight after it.
C15_CounterCountsActiveUsers ==
    /\ Quiescent => providerData.Counter = Cardinality(ActiveUsers)
    /\ \A w \in Workers :
          (Quiescent /\ PairDone(w)) =>
              gcraneData[w].Counter = Cardinality(ActiveUsers)

\* C16: outside a materialization or teardown, DockerIsConfigured of the
\* provider's scope is true exactly when the temporary config.json is on disk.
C16_ConfiguredIffFileExists ==
    Quiescent =>
        (providerData.DockerIsConfigured <=>
            FileExists(providerData.DockerConfigFile))

\* C17: at most one worker at a time is inside the materialization body or
\* the teardown body.
C17_OneTransitionAtATime ==
    Cardinality({w \in Workers : Materializing(w)}) <= 1

\* C19: while some operation is between its Setup and its Cleanup the
\* temporary config.json is on disk and holds docker_config: no Setup
\* truncates or rewrites it and no Cleanup removes it.
C19_FileImmutableWhileInFlight ==
    (providerData.DockerConfig # "" /\ ActiveUsers # {}) =>
        /\ FileExists(providerData.DockerConfigFile)
        /\ files[providerData.DockerConfigFile] = providerData.DockerConfig

\* Worker w is inside its call of Setup.
InSetup(w) == pc[w] = "Setup" \/ Materializing(w)

\* C18: a Create or list Read whose Setup succeeded runs Cleanup exactly once
\* before it returns, whichever way its body ends, and one whose Setup failed
\* runs no Cleanup.  In steps: Setup ends in the body or, failed, in the
\* return; the body ends in Cleanup only; Cleanup runs (its counter copy is
\* the provider's minus one) and ends in the return only.
C18_CleanupOncePerSetup ==
    [][\A w \in Workers :
          /\ InSetup(w) =>
                /\ InSetup(w)' \/ pc'[w] \in {"Body", "Return"}
                /\ pc'[w] = "Return" <=> SetupFailed(w)'
                /\ pc'[w] = "Body" => ~SetupFailed(w)'
          /\ pc[w] = "Body" => pc'[w] \in {"Body", "Cleanup"}
          /\ pc[w] = "Cleanup" =>
                \/ pc'[w] = "Cleanup" /\ gcraneData'[w] = gcraneData[w]
                \/ /\ pc'[w] = "Return"
                   /\ gcraneData'[w].Counter = providerData.Counter - 1
          /\ pc[w] = "Return" => pc'[w] \in {"Return", "idle"}]_vars

\* C18, the case: a handler whose body ended in an error has run its Cleanup
\* and is about to return.
C18_Witness ==
    \E w \in Workers :
        /\ PairDone(w)
        /\ CopyFailed(w) \/ ResolutionFailed(w) \/ ListFailed(w)
        /\ gcraneData[w].Counter = providerData.Counter - 1

\* C20: a handler whose Setup failed goes no further: it has called neither
\* the copy routine nor name resolution nor List, has written no state, and
\* returns the one diagnostic "Could not setup provider".
C20_SetupFailureStopsOperation ==
    \A w \in Workers :
        SetupFailed(w) =>
            /\ pc[w] = "Return"
            /\ calls[w] = <<>>
            /\ newState[w] = NullModel
            /\ dataState[w] = NullData
            /\ diags[w] = <<"Could not setup provider">>

\* C20, the case: a Create and a list Read whose Setup failed.
C20_Witness ==
    /\ \E w \in Workers : req[w].op = "Create" /\ SetupFailed(w) /\ calls[w] = <<>>
    /\ \E w \in Workers : req[w].op = "ListRead" /\ SetupFailed(w) /\ calls[w] = <<>>

\* C21: with a non-empty docker_config, while some operation is between the
\* successful return of its Setup and the start of its Cleanup, config.json is
\* on disk with the whole docker_config, DOCKER_CONFIG is its directory, and
\* no other Setup is still materializing.
C21_CredentialsReadyWhileInFlight ==
    (providerData.DockerConfig # "" /\ ActiveUsers # {}) =>
        /\ FileExists(providerData.DockerConfigFile)
        /\ files[providerData.DockerConfigFile] = providerData.DockerConfig
        /\ env = Dir(providerData.DockerConfigFile)
        /\ \A w \in Workers : ~Materializing(w)

\* C22: with an empty docker_config no Setup and no Cleanup makes a directory
\* or a file, removes a file or changes DOCKER_CONFIG: the disk stays as it
\* was and DOCKER_CONFIG keeps the value it had when the provider was
\* configured, in every state and over every step.
C22_EmptyConfigTouchesNothing ==
    [][providerData.DockerConfig = "" =>
          /\ dirs' = dirs /\ files' = files /\ env' = env
          /\ dirs' = {} /\ files' = <<>>
          /\ env' = providerData.OriginalEnv]_vars

\* C22, the case: with an empty docker_config one operation has run its Setup
\* and its Cleanup while another is between its own.
C22_Witness ==
    /\ providerData.DockerConfig = ""
    /\ \E v, w \in Workers : v # w /\ PairDone(v) /\ InFlight(w)
    /\ dirs = {} /\ files = <<>> /\ env = providerData.OriginalEnv

====
